---- MODULE Spec2Model ----
(***************************************************************************)
(* SAP vs Open Orders four-field row-by-row checker (app.py).              *)
(*                                                                         *)
(* Text is a sequence of one-character strings.  A spreadsheet cell, as    *)
(* pandas.read_excel delivers it, is text, an integer, a float holding an  *)
(* integral value, or NaN (missing).                                       *)
(***************************************************************************)
EXTENDS Integers, Sequences, FiniteSets, TLC

\* ---------------------------------------------------------------- bounds
MaxLen == 3
MaxRows == 2

\* ------------------------------------------------------ program constants
SAP_PO_COL == 2
SAP_LOC_COL == 3
SAP_ITEM_COL == 6
SAP_MODEL_COL == 7
OO_LOC_COL == 9
OO_PO_COL == 13
OO_ITEM_COL == 14
OO_MODEL_COL == 16
ROW_LABEL_OFFSET == 2

\* ------------------------------------------------------------------ text
Whitespace == {" ", "\t", "\n"}
DigitChars == <<"0", "1", "2", "3", "4", "5", "6", "7", "8", "9">>
DigitSet == {DigitChars[k] : k \in 1..10}
LowerLetters == <<"a", "b", "c", "d", "e", "f", "g", "h", "i", "j", "k", "l", "m",
                  "n", "o", "p", "q", "r", "s", "t", "u", "v", "w", "x", "y", "z">>
UpperLetters == <<"A", "B", "C", "D", "E", "F", "G", "H", "I", "J", "K", "L", "M",
                  "N", "O", "P", "Q", "R", "S", "T", "U", "V", "W", "X", "Y", "Z">>

UpperChar(c) ==
    IF \E k \in 1..26 : LowerLetters[k] = c
    THEN UpperLetters[CHOOSE k \in 1..26 : LowerLetters[k] = c]
    ELSE c

\* str.upper()
Upper(s) == [k \in 1..Len(s) |-> UpperChar(s[k])]

RECURSIVE LStripSet(_, _)
\* str.lstrip(chars)
LStripSet(s, cs) ==
    IF s # <<>> /\ Head(s) \in cs THEN LStripSet(Tail(s), cs) ELSE s

RECURSIVE RStripSet(_, _)
RStripSet(s, cs) ==
    IF s # <<>> /\ s[Len(s)] \in cs THEN RStripSet(SubSeq(s, 1, Len(s) - 1), cs) ELSE s

\* str.strip()
Strip(s) == RStripSet(LStripSet(s, Whitespace), Whitespace)

IsDigitChar(c) == c \in DigitSet
IsNotSpace(c) == c # " "

\* str.replace(" ", "")
RemoveSpaces(s) == SelectSeq(s, IsNotSpace)

\* re.sub(r"[^0-9]", "", s)
OnlyDigits(s) == SelectSeq(s, IsDigitChar)

\* ">>" in s
HasMarker(s) == \E k \in 1..(Len(s) - 1) : s[k] = ">" /\ s[k + 1] = ">"

\* s.split(">>", 1)[0]
BeforeMarker(s) ==
    LET first == CHOOSE k \in 1..(Len(s) - 1) :
                    /\ s[k] = ">" /\ s[k + 1] = ">"
                    /\ \A j \in 1..(k - 1) : ~(s[j] = ">" /\ s[j + 1] = ">")
    IN  SubSeq(s, 1, first - 1)

RECURSIVE IntDigits(_)
\* decimal digits of a non-negative integer
IntDigits(n) ==
    IF n < 10 THEN <<DigitChars[n + 1]>>
    ELSE IntDigits(n \div 10) \o <<DigitChars[(n % 10) + 1]>>

\* ----------------------------------------------------------------- cells
TextCell(s) == [t |-> "str", s |-> s, n |-> 0]
IntCell(n) == [t |-> "int", s |-> <<>>, n |-> n]
FloatCell(n) == [t |-> "float", s |-> <<>>, n |-> n]
NaN == [t |-> "nan", s |-> <<>>, n |-> 0]

\* str(x)
PyStr(x) ==
    CASE x.t = "str" -> x.s
      [] x.t = "int" -> IntDigits(x.n)
      [] x.t = "float" -> IntDigits(x.n) \o <<".", "0">>
      [] x.t = "nan" -> <<"n", "a", "n">>

\* pd.isna(x)
IsNa(x) == x.t = "nan"

\* ----------------------------------------------------------- normalizers
\* clean_model without the guard for a missing cell
clean_model_no_na_guard(x) ==
    LET s == PyStr(x)
    IN  IF HasMarker(s) THEN Strip(BeforeMarker(s)) ELSE Strip(s)

\* clean_model without the final strip of the text before ">>"
clean_model_unstripped(x) ==
    IF IsNa(x) THEN <<>>
    ELSE LET s == PyStr(x)
         IN  IF HasMarker(s) THEN BeforeMarker(s) ELSE Strip(s)

clean_model(x) ==
    IF IsNa(x) THEN <<>>
    ELSE LET s == PyStr(x)
         IN  IF HasMarker(s) THEN Strip(BeforeMarker(s)) ELSE Strip(s)

norm_po(x) == RemoveSpaces(Upper(Strip(PyStr(x))))

\* norm_line that keeps leading zeros
norm_line_keep_zeros(x) ==
    LET s == OnlyDigits(PyStr(x))
    IN  IF s # <<>> THEN s ELSE <<"0">>

norm_line(x) ==
    LET s == OnlyDigits(PyStr(x))
        r == LStripSet(s, {"0"})
    IN  IF r # <<>> THEN r ELSE <<"0">>

CODE_2913 == <<"2", "9", "1", "3">>
EDMONTON == <<"E", "D", "M", "O", "N", "T", "O", "N">>

norm_loc_sap(x) ==
    LET code == Strip(PyStr(x))
    IN  IF code = CODE_2913 THEN EDMONTON ELSE Upper(code)

\* norm_loc_oo without the upper-casing
norm_loc_oo_as_typed(x) == Strip(PyStr(x))

norm_loc_oo(x) == Upper(Strip(PyStr(x)))


\* ------------------------------------------------------------ raw tables
\* A RawTable (DataFrame): ncols columns, rows indexed by column position.
NoTable == [ncols |-> 0, rows |-> <<>>]
NoFile == [present |-> FALSE, readable |-> FALSE, table |-> NoTable]

\* exception raised by df.iloc[:, [...]] when a position is out of bounds
IndexError ==
    [type |-> "IndexError",
     msg |-> <<"p", "o", "s", "i", "t", "i", "o", "n", "a", "l", " ", "i", "n", "d", "e", "x", "e", "r", "s", " ", "a", "r", "e", " ", "o", "u", "t", "-", "o", "f", "-", "b", "o", "u", "n", "d", "s">>]
\* exception raised by pd.read_excel on an upload it cannot parse
ReadError ==
    [type |-> "ValueError",
     msg |-> <<"E", "x", "c", "e", "l", " ", "f", "i", "l", "e", " ", "f", "o", "r", "m", "a", "t", " ", "c", "a", "n", "n", "o", "t", " ", "b", "e", " ", "d", "e", "t", "e", "r", "m", "i", "n", "e", "d">>]
NoError == [type |-> "", msg |-> <<>>]

MaxOf(S) == CHOOSE m \in S : \A k \in S : k <= m

\* extract_sap_four naming the selected columns in the Open Orders order
extract_sap_four_oo_names(df) ==
    IF df.ncols <= MaxOf({SAP_PO_COL, SAP_LOC_COL, SAP_ITEM_COL, SAP_MODEL_COL})
    THEN [ok |-> FALSE, exc |-> IndexError, table |-> <<>>]
    ELSE [ok |-> TRUE, exc |-> NoError,
          table |-> [r \in 1..Len(df.rows) |->
                       [po |-> norm_po(df.rows[r][SAP_PO_COL]),
                        po_item |-> norm_line(df.rows[r][SAP_LOC_COL]),
                        model |-> clean_model(df.rows[r][SAP_ITEM_COL]),
                        location |-> norm_loc_sap(df.rows[r][SAP_MODEL_COL])]]]

extract_sap_four(df) ==
    IF df.ncols <= MaxOf({SAP_PO_COL, SAP_LOC_COL, SAP_ITEM_COL, SAP_MODEL_COL})
    THEN [ok |-> FALSE, exc |-> IndexError, table |-> <<>>]
    ELSE [ok |-> TRUE, exc |-> NoError,
          table |-> [r \in 1..Len(df.rows) |->
                       [po |-> norm_po(df.rows[r][SAP_PO_COL]),
                        po_item |-> norm_line(df.rows[r][SAP_ITEM_COL]),
                        model |-> clean_model(df.rows[r][SAP_MODEL_COL]),
                        location |-> norm_loc_sap(df.rows[r][SAP_LOC_COL])]]]

extract_oo_four(df) ==
    IF df.ncols <= MaxOf({OO_PO_COL, OO_ITEM_COL, OO_MODEL_COL, OO_LOC_COL})
    THEN [ok |-> FALSE, exc |-> IndexError, table |-> <<>>]
    ELSE [ok |-> TRUE, exc |-> NoError,
          table |-> [r \in 1..Len(df.rows) |->
                       [po |-> norm_po(df.rows[r][OO_PO_COL]),
                        po_item |-> norm_line(df.rows[r][OO_ITEM_COL]),
                        model |-> clean_model(df.rows[r][OO_MODEL_COL]),
                        location |-> norm_loc_oo(df.rows[r][OO_LOC_COL])]]]

\* ------------------------------------------------- mismatch descriptions
LabelPo == <<"P", "O", " ", "#">>
LabelItem == <<"P", "O", " ", "I", "t", "e", "m">>
LabelModel == <<"M", "o", "d", "e", "l">>
LabelLocation == <<"L", "o", "c", "a", "t", "i", "o", "n">>
SapEq == <<":", " ", "S", "A", "P", "=">>
VsOo == <<" ", "v", "s", " ", "O", "O", "=">>
Quote == <<"'">>
Delimiter == <<" ", "|", " ">>

\* f"PO #: SAP={a} vs OO={b}"
PlainIssue(label, a, b) == label \o SapEq \o a \o VsOo \o b
\* f"Model: SAP='{a}' vs OO='{b}'"
QuotedIssue(label, a, b) ==
    label \o SapEq \o Quote \o a \o Quote \o VsOo \o Quote \o b \o Quote

\* the issues list with the model checked before the PO item
RowIssues_model_first(sap_row, oo_row) ==
    (IF sap_row.po # oo_row.po
       THEN <<PlainIssue(LabelPo, sap_row.po, oo_row.po)>> ELSE <<>>)
    \o (IF sap_row.model # oo_row.model
       THEN <<QuotedIssue(LabelModel, sap_row.model, oo_row.model)>> ELSE <<>>)
    \o (IF sap_row.po_item # oo_row.po_item
       THEN <<PlainIssue(LabelItem, sap_row.po_item, oo_row.po_item)>> ELSE <<>>)
    \o (IF sap_row.location # oo_row.location
       THEN <<QuotedIssue(LabelLocation, sap_row.location, oo_row.location)>> ELSE <<>>)

\* the issues list of one loop iteration
RowIssues(sap_row, oo_row) ==
    (IF sap_row.po # oo_row.po
       THEN <<PlainIssue(LabelPo, sap_row.po, oo_row.po)>> ELSE <<>>)
    \o (IF sap_row.po_item # oo_row.po_item
       THEN <<PlainIssue(LabelItem, sap_row.po_item, oo_row.po_item)>> ELSE <<>>)
    \o (IF sap_row.model # oo_row.model
       THEN <<QuotedIssue(LabelModel, sap_row.model, oo_row.model)>> ELSE <<>>)
    \o (IF sap_row.location # oo_row.location
       THEN <<QuotedIssue(LabelLocation, sap_row.location, oo_row.location)>> ELSE <<>>)

RECURSIVE Join(_, _)
\* sep.join(parts)
Join(sep, parts) ==
    IF parts = <<>> THEN <<>>
    ELSE IF Len(parts) = 1 THEN parts[1]
    ELSE parts[1] \o sep \o Join(sep, Tail(parts))

CombinedRow(idx, sap_row, oo_row, iss) ==
    [Excel_Row |-> idx + ROW_LABEL_OFFSET,
     SAP_PO |-> sap_row.po, SAP_Item |-> sap_row.po_item,
     SAP_Model |-> sap_row.model, SAP_Location |-> sap_row.location,
     OO_PO |-> oo_row.po, OO_Item |-> oo_row.po_item,
     OO_Model |-> oo_row.model, OO_Location |-> oo_row.location,
     Equivalent |-> IF iss = <<>> THEN "yes" ELSE "no"]

\* a discrepancy row labelled without the header row
DiscrepancyRow_no_header(idx, iss) ==
    [Excel_Row |-> idx + 1, Whats_Different |-> Join(Delimiter, iss)]

DiscrepancyRow(idx, iss) ==
    [Excel_Row |-> idx + ROW_LABEL_OFFSET, Whats_Different |-> Join(Delimiter, iss)]

\* len(df), df.head(n)
Min(a, b) == IF a <= b THEN a ELSE b
HeadRows(t, k) == SubSeq(t, 1, k)

\* ---------------------------------------------------------------- screen
\* one rendered streamlit element
El(w, text, args, table, exc) ==
    [w |-> w, text |-> text, args |-> args, table |-> table, exc |-> exc]


WarnBothFiles == <<"P", "l", "e", "a", "s", "e", " ", "u", "p", "l", "o", "a", "d", " ", "b", "o", "t", "h", " ", "f", "i", "l", "e", "s", " ", "b", "e", "f", "o", "r", "e", " ", "c", "o", "m", "p", "a", "r", "i", "n", "g", ".">>
ReadFailedPrefix == <<"F", "a", "i", "l", "e", "d", " ", "t", "o", " ", "r", "e", "a", "d", " ", "E", "x", "c", "e", "l", " ", "f", "i", "l", "e", "s", ":", " ">>
ExtractFailedPrefix == <<"C", "o", "l", "u", "m", "n", " ", "e", "x", "t", "r", "a", "c", "t", "i", "o", "n", " ", "f", "a", "i", "l", "e", "d", ".", " ", "E", "r", "r", "o", "r", ":", " ">>
IdleInfo == <<"U", "p", "l", "o", "a", "d", " ", "b", "o", "t", "h", " ", "E", "x", "c", "e", "l", " ", "f", "i", "l", "e", "s", " ", "a", "n", "d", " ", "c", "l", "i", "c", "k", " ", "*", "*", "C", "o", "m", "p", "a", "r", "e", "*", "*", ".">>

\* ----------------------------------------------------------------- state
VARIABLES
    pc,               \* position of the script run
    run,              \* st.button("Compare")
    sap_file, oo_file,
    sap_df, oo_df,
    sap_four, oo_four,
    n, i, issues,
    rows_checked, equivalent_rows, discrepancy_rows, combined_rows,
    sap_len, oo_len,
    screen,           \* elements rendered by this run, in order
    nx, nfn, ny, nyy  \* one normalizer applied to one cell, then to its own result

vars == <<pc, run, sap_file, oo_file, sap_df, oo_df, sap_four, oo_four, n, i, issues,
          rows_checked, equivalent_rows, discrepancy_rows, combined_rows,
          sap_len, oo_len, screen, nx, nfn, ny, nyy>>

fileVars == <<sap_file, oo_file>>
frameVars == <<sap_df, oo_df>>
fourVars == <<sap_four, oo_four>>
loopVars == <<n, i, issues, rows_checked, equivalent_rows, discrepancy_rows, combined_rows>>
lenVars == <<sap_len, oo_len>>
normVars == <<nx, nfn, ny, nyy>>


\* ---------------------------------------------------------------- inputs
\* the four cells of one SAP data row that the extractor reads
SapKinds ==
    << [po |-> TextCell(<<" ", "p", "o", " ", "1">>), location |-> TextCell(<<"2", "9", "1", "3">>),
        po_item |-> IntCell(7), model |-> TextCell(<<"X", " ">>)],
       [po |-> TextCell(<<" ", "p", "o", " ", "1">>), location |-> TextCell(<<" ", "y", "e", "g">>),
        po_item |-> IntCell(7), model |-> TextCell(<<"X", " ">>)],
       [po |-> TextCell(<<" ", "p", "o", " ", "1">>), location |-> TextCell(<<"2", "9", "1", "3">>),
        po_item |-> IntCell(7), model |-> TextCell(<<"Y">>)],
       [po |-> IntCell(45), location |-> IntCell(2913),
        po_item |-> FloatCell(7), model |-> NaN] >>

\* the four cells of one Open Orders data row that the extractor reads
OoKinds ==
    << [po |-> TextCell(<<"P", "O", "1">>), po_item |-> TextCell(<<"0", "0", "7">>),
        model |-> TextCell(<<"X", " ", ">", ">", " ", "v", "2">>), location |-> TextCell(<<"e", "d", "m", "o", "n", "t", "o", "n">>)],
       [po |-> TextCell(<<"P", "O", "1">>), po_item |-> TextCell(<<"I", "t", "e", "m", " ", "8">>),
        model |-> TextCell(<<"X", " ", ">", ">", " ", "v", "2">>), location |-> TextCell(<<"e", "d", "m", "o", "n", "t", "o", "n">>)],
       [po |-> TextCell(<<"4", "5", " ">>), po_item |-> TextCell(<<"7", "0">>),
        model |-> NaN, location |-> TextCell(<<"E", "d", "m", "o", "n", "t", "o", "n", " ">>)],
       [po |-> TextCell(<<"P", "O", "1">>), po_item |-> TextCell(<<"0", "0", "7">>),
        model |-> TextCell(<<"X", " ", ">", ">", " ", "v", "2">>), location |-> TextCell(<<"2", "9", "1", "3">>)],
       [po |-> TextCell(<<"P", "O", "1">>), po_item |-> TextCell(<<"0", "7">>),
        model |-> TextCell(<<"X">>), location |-> TextCell(<<"Y", "E", "G", "\t">>)] >>

\* a cell of a column the extractors do not read
Filler(c) == IntCell(100 + c)

SapRawRow(k, ncols) ==
    [c \in 0..(ncols - 1) |->
        CASE c = SAP_PO_COL -> k.po
          [] c = SAP_LOC_COL -> k.location
          [] c = SAP_ITEM_COL -> k.po_item
          [] c = SAP_MODEL_COL -> k.model
          [] OTHER -> Filler(c)]

OoRawRow(k, ncols) ==
    [c \in 0..(ncols - 1) |->
        CASE c = OO_PO_COL -> k.po
          [] c = OO_ITEM_COL -> k.po_item
          [] c = OO_MODEL_COL -> k.model
          [] c = OO_LOC_COL -> k.location
          [] OTHER -> Filler(c)]

KindSeqs(m) == UNION {[1..len -> 1..m] : len \in 0..MaxRows}

\* SAP sheets, with and without the last column the extractor reads
SapTables ==
    {[ncols |-> w, rows |-> [r \in 1..Len(ks) |-> SapRawRow(SapKinds[ks[r]], w)]] :
        w \in {SAP_MODEL_COL, SAP_MODEL_COL + 1}, ks \in KindSeqs(Len(SapKinds))}

OoTables ==
    {[ncols |-> w, rows |-> [r \in 1..Len(ks) |-> OoRawRow(OoKinds[ks[r]], w)]] :
        w \in {OO_MODEL_COL, OO_MODEL_COL + 1}, ks \in KindSeqs(Len(OoKinds))}

Unreadable == [present |-> TRUE, readable |-> FALSE, table |-> NoTable]
Upload(t) == [present |-> TRUE, readable |-> TRUE, table |-> t]

SapFiles == {NoFile, Unreadable} \cup {Upload(t) : t \in SapTables}
OoFiles == {NoFile, Unreadable} \cup {Upload(t) : t \in OoTables}

\* ------------------------------------------------------------------ Init
NormIdle == nx = NaN /\ nfn = "" /\ ny = <<>> /\ nyy = <<>>

RunIdle ==
    /\ run = FALSE
    /\ sap_df = NoTable /\ oo_df = NoTable
    /\ sap_four = <<>> /\ oo_four = <<>>
    /\ n = 0 /\ i = 0 /\ issues = <<>>
    /\ rows_checked = 0 /\ equivalent_rows = 0
    /\ discrepancy_rows = <<>> /\ combined_rows = <<>>
    /\ sap_len = 0 /\ oo_len = 0
    /\ screen = <<>>

Init ==
    /\ pc = "script"
    /\ sap_file \in SapFiles
    /\ oo_file \in OoFiles
    /\ RunIdle
    /\ NormIdle

\* --------------------------------------------------------------- actions
\* app.py:106-108  the Compare button was clicked
ClickCompare ==
    /\ pc = "script"
    /\ run' = TRUE
    /\ pc' = "check_files"
    /\ UNCHANGED <<fileVars, frameVars, fourVars, loopVars, lenVars, screen, normVars>>

\* app.py:160-161  the script ran without a click
RenderIdle ==
    /\ pc = "script"
    /\ screen' = <<El("info", IdleInfo, <<>>, <<>>, NoError)>>
    /\ pc' = "done_idle"
    /\ UNCHANGED <<run, fileVars, frameVars, fourVars, loopVars, lenVars, normVars>>

\* the upload check passing when only one file is missing
CheckFiles_either ==
    /\ pc = "check_files"
    /\ IF ~sap_file.present /\ ~oo_file.present
       THEN /\ screen' = Append(screen, El("warning", WarnBothFiles, <<>>, <<>>, NoError))
            /\ pc' = "stopped"
       ELSE /\ pc' = "read"
            /\ UNCHANGED screen
    /\ UNCHANGED <<run, fileVars, frameVars, fourVars, loopVars, lenVars, normVars>>

\* app.py:109-111
CheckFiles ==
    /\ pc = "check_files"
    /\ IF ~sap_file.present \/ ~oo_file.present
       THEN /\ screen' = Append(screen, El("warning", WarnBothFiles, <<>>, <<>>, NoError))
            /\ pc' = "stopped"
       ELSE /\ pc' = "read"
            /\ UNCHANGED screen
    /\ UNCHANGED <<run, fileVars, frameVars, fourVars, loopVars, lenVars, normVars>>

\* app.py:113-118
ReadExcel ==
    /\ pc = "read"
    /\ IF ~sap_file.readable
       THEN /\ screen' = Append(screen, El("error", ReadFailedPrefix \o ReadError.msg,
                                           <<>>, <<>>, ReadError))
            /\ pc' = "stopped"
            /\ UNCHANGED frameVars
       ELSE IF ~oo_file.readable
       THEN /\ screen' = Append(screen, El("error", ReadFailedPrefix \o ReadError.msg,
                                           <<>>, <<>>, ReadError))
            /\ pc' = "stopped"
            /\ sap_df' = sap_file.table
            /\ UNCHANGED oo_df
       ELSE /\ sap_df' = sap_file.table
            /\ oo_df' = oo_file.table
            /\ pc' = "extract"
            /\ UNCHANGED screen
    /\ UNCHANGED <<run, fileVars, fourVars, loopVars, lenVars, normVars>>

\* app.py:120-125
Extract ==
    /\ pc = "extract"
    /\ LET s == extract_sap_four(sap_df)
           o == extract_oo_four(oo_df)
       IN  IF ~s.ok
           THEN /\ screen' = Append(screen, El("error", ExtractFailedPrefix \o s.exc.msg,
                                               <<>>, <<>>, s.exc))
                /\ pc' = "stopped"
                /\ UNCHANGED fourVars
           ELSE IF ~o.ok
           THEN /\ screen' = Append(screen, El("error", ExtractFailedPrefix \o o.exc.msg,
                                               <<>>, <<>>, o.exc))
                /\ pc' = "stopped"
                /\ sap_four' = s.table
                /\ UNCHANGED oo_four
           ELSE /\ sap_four' = s.table
                /\ oo_four' = o.table
                /\ pc' = "compare"
                /\ UNCHANGED screen
    /\ UNCHANGED <<run, fileVars, frameVars, loopVars, lenVars, normVars>>

\* app.py:48-56  entry of compare_row_by_row
CompareStart ==
    /\ pc = "compare"
    /\ n' = Min(Len(sap_four), Len(oo_four))
    /\ rows_checked' = n'
    /\ equivalent_rows' = 0
    /\ discrepancy_rows' = <<>>
    /\ combined_rows' = <<>>
    /\ i' = 0
    /\ issues' = <<>>
    /\ pc' = "loop"
    /\ UNCHANGED <<run, fileVars, frameVars, fourVars, lenVars, screen, normVars>>

\* app.py:57-90  one iteration of the loop, for row index i
CompareRow ==
    /\ pc = "loop"
    /\ i < n
    /\ LET sap_row == HeadRows(sap_four, n)[i + 1]
           oo_row == HeadRows(oo_four, n)[i + 1]
           iss == RowIssues(sap_row, oo_row)
       IN  /\ issues' = iss
           /\ combined_rows' = Append(combined_rows, CombinedRow(i, sap_row, oo_row, iss))
           /\ IF iss # <<>>
              THEN /\ discrepancy_rows' = Append(discrepancy_rows, DiscrepancyRow(i, iss))
                   /\ UNCHANGED equivalent_rows
              ELSE /\ equivalent_rows' = equivalent_rows + 1
                   /\ UNCHANGED discrepancy_rows
    /\ i' = i + 1
    /\ UNCHANGED <<pc, run, fileVars, frameVars, fourVars, n, rows_checked, lenVars,
                   screen, normVars>>

\* app.py:92-94, 127  return of compare_row_by_row
CompareReturn ==
    /\ pc = "loop"
    /\ i >= n
    /\ sap_len' = Len(sap_four)
    /\ oo_len' = Len(oo_four)
    /\ pc' = "render"
    /\ UNCHANGED <<run, fileVars, frameVars, fourVars, loopVars, screen, normVars>>

\* the length notice shown only when the SAP sheet is the longer one
LengthNotice_sap_longer ==
    IF sap_len > oo_len
    THEN <<El("info", <<>>, <<sap_len, oo_len, rows_checked>>, <<>>, NoError)>>
    ELSE <<>>

LengthNotice ==
    IF sap_len # oo_len
    THEN <<El("info", <<>>, <<sap_len, oo_len, rows_checked>>, <<>>, NoError)>>
    ELSE <<>>

DiscrepancyReport ==
    IF discrepancy_rows = <<>>
    THEN <<El("success", <<>>, <<>>, <<>>, NoError)>>
    ELSE <<El("dataframe", <<>>, <<>>, discrepancy_rows, NoError),
           El("download_button", <<>>, <<>>, discrepancy_rows, NoError)>>

\* app.py:129-159
Render ==
    /\ pc = "render"
    /\ screen' = screen
            \o <<El("subheader", <<>>, <<>>, <<>>, NoError),
                 El("metric_rows_checked", <<>>, <<rows_checked>>, <<>>, NoError),
                 El("metric_rows_equivalent", <<>>, <<equivalent_rows>>, <<>>, NoError),
                 El("metric_rows_with_discrepancies", <<>>,
                    <<rows_checked - equivalent_rows>>, <<>>, NoError)>>
            \o LengthNotice
            \o <<El("row_view", <<>>, <<>>, combined_rows, NoError)>>
            \o DiscrepancyReport
    /\ pc' = "done"
    /\ UNCHANGED <<run, fileVars, frameVars, fourVars, loopVars, lenVars, normVars>>

Next ==
    \/ ClickCompare
    \/ RenderIdle
    \/ CheckFiles
    \/ ReadExcel
    \/ Extract
    \/ CompareStart
    \/ CompareRow
    \/ CompareReturn
    \/ Render

Spec == Init /\ [][Next]_vars


\* ---------------------------------------------- normalizers on one cell
NormAlphabet == {" ", "\t", "a", "A", "0", "7", ">"}

ShortTexts == UNION {[1..len -> NormAlphabet] : len \in 0..MaxLen}

SampleTexts ==
    {<<"2", "9", "1", "3">>,
     <<" ", "2", "9", "1", "3", " ">>,
     <<"2", "9", "1", "3", "0">>,
     <<"y", "e", "g">>,
     <<"E", "D", "M", "O", "N", "T", "O", "N">>,
     <<"e", "d", "m", "o", "n", "t", "o", "n", " ">>,
     <<"0", "0", "7">>,
     <<"I", "t", "e", "m", " ", "7">>,
     <<"L", "i", "n", "e", " ", "0", "0", "7", "A">>,
     <<"A", "B", "C", "1", "2", "3", " ", ">", ">", " ", "e", "x", "t", "r", "a">>,
     <<" ", " ", "X", "Y", "Z", " ", " ">>,
     <<"a", ">", ">", ">", "b">>,
     <<" ", ">", ">", " ", "x">>,
     <<"a", " ", ">", ">", "b", ">", ">", " ", "c">>,
     <<"p", " ", "o", "\t", "1">>,
     <<"n", "a", "n">>}

Cells ==
    {TextCell(s) : s \in ShortTexts \cup SampleTexts}
    \cup {NaN, IntCell(0), IntCell(7), IntCell(2913), IntCell(700),
          FloatCell(7), FloatCell(2913)}

NormInit ==
    /\ pc = "norm_input"
    /\ nx \in Cells
    /\ nfn = "" /\ ny = <<>> /\ nyy = <<>>
    /\ sap_file = NoFile /\ oo_file = NoFile
    /\ RunIdle

NormApply(name, y) ==
    /\ pc = "norm_input"
    /\ nfn' = name
    /\ ny' = y
    /\ pc' = "norm_applied"
    /\ UNCHANGED <<nx, nyy, run, fileVars, frameVars, fourVars, loopVars, lenVars, screen>>

NormReapply(name, yy) ==
    /\ pc = "norm_applied"
    /\ nfn = name
    /\ nyy' = yy
    /\ pc' = "norm_reapplied"
    /\ UNCHANGED <<nx, nfn, ny, run, fileVars, frameVars, fourVars, loopVars, lenVars, screen>>

\* app.py:9-13
Apply_clean_model == NormApply("clean_model", clean_model(nx))
Reapply_clean_model == NormReapply("clean_model", clean_model(TextCell(ny)))
\* app.py:15-16
Apply_norm_po == NormApply("norm_po", norm_po(nx))
Reapply_norm_po == NormReapply("norm_po", norm_po(TextCell(ny)))
\* app.py:18-20
Apply_norm_line == NormApply("norm_line", norm_line(nx))
Reapply_norm_line == NormReapply("norm_line", norm_line(TextCell(ny)))
\* app.py:22-24
Apply_norm_loc_sap == NormApply("norm_loc_sap", norm_loc_sap(nx))
Reapply_norm_loc_sap == NormReapply("norm_loc_sap", norm_loc_sap(TextCell(ny)))
\* app.py:26-27
Apply_norm_loc_oo == NormApply("norm_loc_oo", norm_loc_oo(nx))
Reapply_norm_loc_oo == NormReapply("norm_loc_oo", norm_loc_oo(TextCell(ny)))

NormNext ==
    \/ Apply_clean_model
    \/ Reapply_clean_model
    \/ Apply_norm_po
    \/ Reapply_norm_po
    \/ Apply_norm_line
    \/ Reapply_norm_line
    \/ Apply_norm_loc_sap
    \/ Reapply_norm_loc_sap
    \/ Apply_norm_loc_oo
    \/ Reapply_norm_loc_oo

NormSpec == NormInit /\ [][NormNext]_vars


\* both machines side by side: a script run, or one normalizer on one cell
AllSpec == (Init \/ NormInit) /\ [][Next \/ NormNext]_vars

\* ================================================================ claims
IsText(s) == s \in Seq(STRING)
Applied == pc \in {"norm_applied", "norm_reapplied"}

\* C8: norm_line returns the digit characters of str(x) with every leading
\* zero removed, or "0" when nothing remains; "007", "07", "7" and "Item 7"
\* give "7", and "" and "0" give "0".
C8_NormLineDigits ==
    (Applied /\ nfn = "norm_line") =>
        LET d == SelectSeq(PyStr(nx), IsDigitChar)
        IN  /\ ny # <<>>
            /\ \A k \in 1..Len(ny) : ny[k] \in DigitSet
            /\ ny = <<"0">> \/ ny[1] # "0"
            /\ \E z \in 0..Len(d) :
                  /\ \A j \in 1..z : d[j] = "0"
                  /\ \/ ny = SubSeq(d, z + 1, Len(d))
                     \/ z = Len(d) /\ ny = <<"0">>
            /\ nx \in {TextCell(<<"0", "0", "7">>), TextCell(<<"0", "7">>), TextCell(<<"7">>), TextCell(<<"I", "t", "e", "m", " ", "7">>), TextCell(<<"L", "i", "n", "e", " ", "0", "0", "7", "A">>), IntCell(7)}
                  => ny = <<"7">>
            /\ nx \in {TextCell(<<>>), TextCell(<<"0">>), IntCell(0), NaN} => ny = <<"0">>

C8_Witness ==
    /\ Applied /\ nfn = "norm_line"
    /\ nx = TextCell(<<"L", "i", "n", "e", " ", "0", "0", "7", "A">>)
    /\ ny = <<"7">>

\* C9: norm_po, norm_loc_sap, norm_loc_oo and clean_model are idempotent,
\* and the result of clean_model holds no ">>" and no surrounding whitespace.
C9_Idempotent ==
    /\ (pc = "norm_reapplied"
          /\ nfn \in {"norm_po", "norm_loc_sap", "norm_loc_oo", "clean_model"})
       => nyy = ny
    /\ (Applied /\ nfn = "clean_model")
       => /\ \A k \in 1..(Len(ny) - 1) : ~(ny[k] = ">" /\ ny[k + 1] = ">")
          /\ ny # <<>> => (ny[1] \notin Whitespace /\ ny[Len(ny)] \notin Whitespace)

C9_Witness ==
    /\ pc = "norm_reapplied" /\ nfn = "clean_model"
    /\ nx = TextCell(<<"a", " ", ">", ">", "b", ">", ">", " ", "c">>)
    /\ ny = <<"a">> /\ nyy = <<"a">>

\* C10: every normalizer yields a string for every cell, a missing cell
\* included, and so every field of every canonical row is a string: a missing
\* model gives "", a cell without digits gives "0" as PO item, and a
\* location is upper-cased as a whole.
C10_TotalStrings ==
    /\ Applied =>
          /\ IsText(ny)
          /\ (nfn = "clean_model" /\ nx = NaN) => ny = <<>>
          /\ (nfn = "norm_line" /\ \A k \in 1..Len(PyStr(nx)) : PyStr(nx)[k] \notin DigitSet)
                => ny = <<"0">>
          /\ nfn \in {"norm_loc_sap", "norm_loc_oo"}
                => \A k \in 1..Len(ny) : \A l \in 1..26 : ny[k] # LowerLetters[l]
    /\ pc = "norm_reapplied" => IsText(nyy)
    /\ \A t \in {sap_four, oo_four} : \A r \in 1..Len(t) :
          IsText(t[r].po) /\ IsText(t[r].po_item)
             /\ IsText(t[r].model) /\ IsText(t[r].location)

C10_Witness ==
    /\ Applied /\ nfn = "clean_model" /\ nx = NaN /\ ny = <<>>


\* ------------------------------------------------ the run handler claims
Compared == pc \in {"loop", "render", "done"}
Returned == pc \in {"render", "done"}
Shown(w) == \E k \in 1..Len(screen) : screen[k].w = w
RowsDiffer(r) == sap_four[r] # oo_four[r]
Labels(rows) == {rows[k].Excel_Row : k \in 1..Len(rows)}

\* C1: rows_checked is the smaller of the two table lengths and both lengths
\* are reported as they are; rows past rows_checked are in no view and in
\* no count; the length notice is shown exactly when the lengths differ.
C1_RowsChecked ==
    /\ Compared =>
          /\ rows_checked = (IF Len(sap_four) <= Len(oo_four)
                             THEN Len(sap_four) ELSE Len(oo_four))
          /\ Len(combined_rows) <= rows_checked
          /\ \A l \in Labels(combined_rows) \cup Labels(discrepancy_rows) :
                l - 2 \in 0..(rows_checked - 1)
          /\ equivalent_rows <= rows_checked
    /\ Returned =>
          /\ sap_len = Len(sap_file.table.rows) /\ sap_len = Len(sap_four)
          /\ oo_len = Len(oo_file.table.rows) /\ oo_len = Len(oo_four)
          /\ Len(combined_rows) = rows_checked
          /\ equivalent_rows = Cardinality({r \in 1..rows_checked : ~RowsDiffer(r)})
    /\ pc = "done" =>
          /\ Shown("info") <=> Len(sap_file.table.rows) # Len(oo_file.table.rows)
          /\ \A k \in 1..Len(screen) : screen[k].w = "info" =>
                screen[k].args = <<Len(sap_four), Len(oo_four), rows_checked>>

C1_Witness ==
    /\ pc = "done"
    /\ Len(sap_four) = 1 /\ Len(oo_four) = 2
    /\ rows_checked = 1
    /\ Shown("info")

IsPrefix(p, s) == Len(p) <= Len(s) /\ SubSeq(s, 1, Len(p)) = p
Contains(s, sub) ==
    \E k \in 0..(Len(s) - Len(sub)) : SubSeq(s, k + 1, k + Len(sub)) = sub

FieldOrder == <<"po", "po_item", "model", "location">>
FieldLabel(f) ==
    CASE f = "po" -> <<"P", "O", " ", "#", ":">>
      [] f = "po_item" -> <<"P", "O", " ", "I", "t", "e", "m", ":">>
      [] f = "model" -> <<"M", "o", "d", "e", "l", ":">>
      [] f = "location" -> <<"L", "o", "c", "a", "t", "i", "o", "n", ":">>

DifferingFields(a, b) == SelectSeq(FieldOrder, LAMBDA f : a[f] # b[f])

\* C2: for the row just compared, the issues list holds one description per
\* field whose canonical values differ, in the order po, po_item, model,
\* location, and the row is marked equivalent exactly when the list is empty.
C2_IssuesPerField ==
    (Compared /\ i >= 1) =>
        LET a == sap_four[i]
            b == oo_four[i]
            diff == DifferingFields(a, b)
        IN  /\ Len(issues) = Len(diff)
            /\ \A k \in 1..Len(diff) :
                  /\ IsPrefix(FieldLabel(diff[k]), issues[k])
                  /\ Contains(issues[k], <<"S", "A", "P", "=">> \o
                        (IF diff[k] \in {"po", "po_item"} THEN <<>> ELSE <<"'">>) \o a[diff[k]])
                  /\ Contains(issues[k], <<"O", "O", "=">> \o
                        (IF diff[k] \in {"po", "po_item"} THEN <<>> ELSE <<"'">>) \o b[diff[k]])
            /\ combined_rows[i].Equivalent = "yes" <=> issues = <<>>
            /\ combined_rows[i].Equivalent \in {"yes", "no"}
            /\ issues = <<>> <=> a = b

C2_Witness ==
    /\ Compared /\ i >= 1
    /\ Len(issues) = 2
    /\ IsPrefix(FieldLabel("po_item"), issues[1])
    /\ IsPrefix(FieldLabel("model"), issues[2])
    /\ combined_rows[i].Equivalent = "no"

\* C3: once the comparison has returned, the discrepancy view holds exactly
\* the compared rows with a mismatch, once each, in ascending row order with
\* label = index + 2, and equivalent_rows plus its length is rows_checked,
\* which is what the third metric shows.
C3_DiscrepancyView ==
    /\ Returned =>
          /\ Labels(discrepancy_rows) = {r + 1 : r \in {q \in 1..rows_checked : RowsDiffer(q)}}
          /\ \A j, k \in 1..Len(discrepancy_rows) :
                j < k => discrepancy_rows[j].Excel_Row < discrepancy_rows[k].Excel_Row
          /\ \A k \in 1..Len(combined_rows) : combined_rows[k].Excel_Row = (k - 1) + 2
          /\ equivalent_rows + Len(discrepancy_rows) = rows_checked
    /\ pc = "done" =>
          \A k \in 1..Len(screen) :
             /\ screen[k].w = "metric_rows_with_discrepancies"
                   => screen[k].args = <<Len(discrepancy_rows)>>
             /\ screen[k].w = "dataframe" => screen[k].table = discrepancy_rows

C3_Witness ==
    /\ pc = "done"
    /\ rows_checked = 2
    /\ Len(discrepancy_rows) = 1
    /\ discrepancy_rows[1].Excel_Row = 3
    /\ equivalent_rows = 1

ResultWidgets ==
    {"subheader", "metric_rows_checked", "metric_rows_equivalent",
     "metric_rows_with_discrepancies", "info", "row_view", "success",
     "dataframe", "download_button"}

SapWideEnough == sap_file.table.ncols >= 8
OoWideEnough == oo_file.table.ncols >= 17
InputsGood ==
    /\ sap_file.present /\ oo_file.present
    /\ sap_file.readable /\ oo_file.readable
    /\ SapWideEnough /\ OoWideEnough

NothingCompared ==
    /\ n = 0 /\ i = 0 /\ rows_checked = 0 /\ equivalent_rows = 0
    /\ combined_rows = <<>> /\ discrepancy_rows = <<>>

\* C4: within a run the comparator starts, and result widgets are rendered,
\* only when both files are present, read and extracted; otherwise the run
\* stops on a single warning or error with nothing compared or rendered.
C4_NoPartialRun ==
    /\ pc \in {"compare", "loop", "render", "done"} => InputsGood
    /\ (run /\ \E k \in 1..Len(screen) : screen[k].w \in ResultWidgets) => InputsGood
    /\ pc = "read" => (sap_file.present /\ oo_file.present)
    /\ pc = "extract" => (sap_file.readable /\ oo_file.readable)
    /\ pc = "stopped" =>
          /\ ~InputsGood
          /\ Len(screen) = 1
          /\ screen[1].w \in {"warning", "error"}
          /\ screen[1].text # <<>>
          /\ NothingCompared
    /\ (run /\ ~InputsGood) => NothingCompared

C4_Witness ==
    /\ pc = "stopped"
    /\ sap_file.present /\ oo_file.present /\ sap_file.readable /\ oo_file.readable
    /\ ~OoWideEnough
    /\ screen[1].w = "error"

ExtractionFailed ==
    pc = "stopped" /\ screen[1].w = "error" /\ screen[1].exc.type = "IndexError"

NamesSource(text, src) ==
    IF src = "sap" THEN Contains(Upper(text), <<"S", "A", "P">>)
    ELSE \/ Contains(Upper(text), <<"O", "O">>)
         \/ Contains(Upper(text), <<"O", "P", "E", "N">>)

\* C5: when a sheet lacks a column its extractor needs (SAP index 7, Open
\* Orders index 16), the failure shown to the user names the source that
\* failed and the missing column index, and no field is defaulted.
C5_ErrorNamesSourceAndIndex ==
    ExtractionFailed =>
        /\ sap_four = <<>> \/ oo_four = <<>>
        /\ ~SapWideEnough =>
              /\ NamesSource(screen[1].text, "sap")
              /\ Contains(screen[1].text, <<"7">>)
        /\ (SapWideEnough /\ ~OoWideEnough) =>
              /\ NamesSource(screen[1].text, "oo")
              /\ Contains(screen[1].text, <<"1", "6">>)

Extracted == pc \in {"compare", "loop", "render", "done"}

\* C6: each extractor keeps the number and order of rows, builds row r from
\* row r alone (SAP: po 2, location 3, po_item 6, model 7; Open Orders: po 13,
\* po_item 14, model 16, location 9), normalizes each cell with the field's
\* normalizer, and leaves the sheet it read as it was.
C6_ExtractColumns ==
    Extracted =>
        LET sap == sap_file.table.rows
            oo == oo_file.table.rows
        IN  /\ Len(sap_four) = Len(sap) /\ Len(oo_four) = Len(oo)
            /\ \A r \in 1..Len(sap) :
                  /\ sap_four[r].po = norm_po(sap[r][2])
                  /\ sap_four[r].location = norm_loc_sap(sap[r][3])
                  /\ sap_four[r].po_item = norm_line(sap[r][6])
                  /\ sap_four[r].model = clean_model(sap[r][7])
            /\ \A r \in 1..Len(oo) :
                  /\ oo_four[r].po = norm_po(oo[r][13])
                  /\ oo_four[r].po_item = norm_line(oo[r][14])
                  /\ oo_four[r].model = clean_model(oo[r][16])
                  /\ oo_four[r].location = norm_loc_oo(oo[r][9])
            /\ sap_df = sap_file.table /\ oo_df = oo_file.table

C6_Witness ==
    /\ Extracted
    /\ Len(sap_four) = 2 /\ Len(oo_four) = 2
    /\ sap_four[1] # sap_four[2]
    /\ oo_four[1] # oo_four[2]
    /\ sap_four[1].location = EDMONTON
    /\ oo_four[2].model = <<"X">>


\* ------------------------------------------- raw cells that "only differ by"
LowerChar(c) ==
    IF \E k \in 1..26 : UpperLetters[k] = c
    THEN LowerLetters[CHOOSE k \in 1..26 : UpperLetters[k] = c]
    ELSE c
FoldCase(s) == [k \in 1..Len(s) |-> LowerChar(s[k])]

\* s without the whitespace around it
Trimmed(s) ==
    LET inked == {k \in 1..Len(s) : s[k] \notin Whitespace}
    IN  IF inked = {} THEN <<>>
        ELSE SubSeq(s, CHOOSE k \in inked : \A j \in inked : k <= j,
                       CHOOSE k \in inked : \A j \in inked : j <= k)

\* s up to, not including, its first ">>"
Unannotated(s) ==
    LET marks == {k \in 1..(Len(s) - 1) : s[k] = ">" /\ s[k + 1] = ">"}
    IN  IF marks = {} THEN s
        ELSE SubSeq(s, 1, (CHOOSE k \in marks : \A j \in marks : k <= j) - 1)

DigitsOf(s) == SelectSeq(s, LAMBDA c : c \in DigitSet)
ZeroPadded(long, short) ==
    \E z \in 0..Len(long) :
        /\ \A j \in 1..z : long[j] = "0"
        /\ SubSeq(long, z + 1, Len(long)) = short

SameKind(a, b) == (a = NaN) <=> (b = NaN)

\* letter case and spaces
PoAlike(a, b) ==
    /\ SameKind(a, b)
    /\ FoldCase(SelectSeq(PyStr(a), LAMBDA c : c # " "))
          = FoldCase(SelectSeq(PyStr(b), LAMBDA c : c # " "))

\* leading zeros and non-digit characters
ItemAlike(a, b) ==
    /\ SameKind(a, b)
    /\ \/ ZeroPadded(DigitsOf(PyStr(a)), DigitsOf(PyStr(b)))
       \/ ZeroPadded(DigitsOf(PyStr(b)), DigitsOf(PyStr(a)))

\* surrounding whitespace and a trailing annotation from the first ">>"
ModelAlike(a, b) ==
    /\ SameKind(a, b)
    /\ Trimmed(Unannotated(PyStr(a))) = Trimmed(Unannotated(PyStr(b)))

\* letter case and surrounding whitespace
LocationAlike(a, b) ==
    /\ SameKind(a, b)
    /\ FoldCase(Trimmed(PyStr(a))) = FoldCase(Trimmed(PyStr(b)))

IsCode2913(a) == a # NaN /\ Trimmed(PyStr(a)) = <<"2", "9", "1", "3">>
IsEdmonton(b) ==
    b # NaN /\ FoldCase(Trimmed(PyStr(b))) = <<"e", "d", "m", "o", "n", "t", "o", "n">>

RawSap(r) == sap_file.table.rows[r]
RawOo(r) == oo_file.table.rows[r]

OtherFieldsAlike(r) ==
    /\ PoAlike(RawSap(r)[2], RawOo(r)[13])
    /\ ItemAlike(RawSap(r)[6], RawOo(r)[14])
    /\ ModelAlike(RawSap(r)[7], RawOo(r)[16])

JudgedEquivalent(r) ==
    /\ combined_rows[r].Equivalent = "yes"
    /\ r + 1 \notin Labels(discrepancy_rows)
    /\ r = i => issues = <<>>

\* C7 as stated: rows whose raw cells differ only in letter case and spaces
\* (PO), leading zeros and non-digits (item), surrounding whitespace and a
\* ">>" annotation (model), letter case and surrounding whitespace
\* (location), or SAP 2913 against EDMONTON, are judged equivalent.
C7_AsStated ==
    Compared =>
        \A r \in 1..i :
            (/\ OtherFieldsAlike(r)
             /\ \/ LocationAlike(RawSap(r)[3], RawOo(r)[9])
                \/ IsCode2913(RawSap(r)[3]) /\ IsEdmonton(RawOo(r)[9]))
            => JudgedEquivalent(r)

\* C7 amended: as C7, with the location allowed to differ in letter case and
\* surrounding whitespace only when the SAP location is not the code 2913
\* (which the SAP side alone turns into EDMONTON).
C7_Amended ==
    Compared =>
        \A r \in 1..i :
            (/\ OtherFieldsAlike(r)
             /\ \/ /\ LocationAlike(RawSap(r)[3], RawOo(r)[9])
                   /\ ~IsCode2913(RawSap(r)[3])
                \/ IsCode2913(RawSap(r)[3]) /\ IsEdmonton(RawOo(r)[9]))
            => JudgedEquivalent(r)

C7_Witness ==
    /\ Compared /\ i >= 2
    /\ OtherFieldsAlike(1) /\ OtherFieldsAlike(2)
    /\ IsCode2913(RawSap(1)[3]) /\ IsEdmonton(RawOo(1)[9])
    /\ RawSap(1)[2] # RawOo(1)[13] /\ RawSap(1)[7] # RawOo(1)[16]
    /\ LocationAlike(RawSap(2)[3], RawOo(2)[9]) /\ RawSap(2)[3] # RawOo(2)[9]
    /\ JudgedEquivalent(1) /\ JudgedEquivalent(2)

====
